---- MODULE Spec2Model ----
(***************************************************************************)
(* LIS3DSH accelerometer driver (fk-lis3dsh): the register map, the        *)
(* bitfield codecs, the SPI communication port (chip-select framing) and   *)
(* the device controller (initialisation, configuration, sample reads),    *)
(* run against a register-file device behind a transport and a chip-select *)
(* pin that may each fail.                                                 *)
(***************************************************************************)
EXTENDS Integers, Sequences, FiniteSets, TLC

VARIABLES
    regs,    \* the device's register file: address -> byte
    trace,   \* the bus calls and delays of the operation in progress / last run
    pc,      \* the controller's position: "new", the init steps, "failed",
             \* "ready" for a call, "returned" from one
    result   \* what the last operation returned to its caller

vars == <<regs, trace, pc, result>>

Byte == 0..255

(***************************************************************************)
(* u8 / u16 arithmetic as the Rust operators compute it.                   *)
(***************************************************************************)
RECURSIVE BitAnd(_, _)
BitAnd(a, b) ==
    IF a = 0 \/ b = 0 THEN 0
    ELSE (a % 2) * (b % 2) + 2 * BitAnd(a \div 2, b \div 2)

RECURSIVE BitOr(_, _)
BitOr(a, b) ==
    IF a = 0 THEN b
    ELSE IF b = 0 THEN a
    ELSE (IF a % 2 = 1 \/ b % 2 = 1 THEN 1 ELSE 0) + 2 * BitOr(a \div 2, b \div 2)

BitNot8(a) == 255 - a

RECURSIVE Pow2(_)
Pow2(n) == IF n = 0 THEN 1 ELSE 2 * Pow2(n - 1)

Shl8(a, n) == (a * Pow2(n)) % 256

Shl16(a, n) == (a * Pow2(n)) % 65536

Shr(a, n) == a \div Pow2(n)

AsI16(v) == IF v >= 32768 THEN v - 65536 ELSE v

(***************************************************************************)
(* register.rs: the register map and the command-byte encoding.            *)
(***************************************************************************)
OUT_T == 12
INFO1 == 13
INFO2 == 14
WHOAMI == 15
OFF_X == 16
OFF_Y == 17
OFF_Z == 18
CS_X == 19
CS_Y == 20
CS_Z == 21
LC_L == 22
LC_H == 23
STAT == 24
CTRL_REG4 == 32
CTRL_REG1 == 33
CTRL_REG2 == 34
CTRL_REG3 == 35
CTRL_REG5 == 36
CTRL_REG6 == 38
STATUS == 39
OUT_X_L == 40
OUT_X_H == 41
OUT_Y_L == 42
OUT_Y_H == 43
OUT_Z_L == 44
OUT_Z_H == 45

Register ==
    { OUT_T, INFO1, INFO2, WHOAMI, OFF_X, OFF_Y, OFF_Z, CS_X, CS_Y, CS_Z,
      LC_L, LC_H, STAT, CTRL_REG4, CTRL_REG1, CTRL_REG2, CTRL_REG3, CTRL_REG5,
      CTRL_REG6, STATUS, OUT_X_L, OUT_X_H, OUT_Y_L, OUT_Y_H, OUT_Z_L, OUT_Z_H }

addr(r) == r

\* Mutant of read: the flag bit cleared instead of set.
read_flag_cleared(r) == BitAnd(r, 127)

read(r) == BitOr(r, Shl8(1, 7))

write(r) == BitAnd(r, 127)

DEVICE_ID == 63
ODR_MASK == 240
ODR_OFFSET == 4
BDU == 8
Z_EN == 4
Y_EN == 2
X_EN == 1
FS_MASK == 56
FS_OFFSET == 3
STRESET == 1

(***************************************************************************)
(* register.rs: Range and DataRate with their discriminants; TryFrom is    *)
(* the derived lookup of the value whose discriminant is the code.         *)
(***************************************************************************)
Range == {"G16", "G8", "G6", "G4", "G2"}

\* Mutant of RangeBits: G16 shares the code of G8.
RangeBits_shared_code(r) ==
    CASE r = "G16" -> 3
      [] r = "G8" -> 3
      [] r = "G6" -> 2
      [] r = "G4" -> 1
      [] r = "G2" -> 0

RangeBits(r) ==
    CASE r = "G16" -> 4
      [] r = "G8" -> 3
      [] r = "G6" -> 2
      [] r = "G4" -> 1
      [] r = "G2" -> 0

DataRate ==
    { "Hz_1600", "Hz_800", "Hz_400", "Hz_100", "Hz_50", "Hz_25", "Hz_12",
      "Hz_6", "Hz_3", "PowerDown" }

DataRateBits(d) ==
    CASE d = "Hz_1600" -> 9
      [] d = "Hz_800" -> 8
      [] d = "Hz_400" -> 7
      [] d = "Hz_100" -> 6
      [] d = "Hz_50" -> 5
      [] d = "Hz_25" -> 4
      [] d = "Hz_12" -> 3
      [] d = "Hz_6" -> 2
      [] d = "Hz_3" -> 1
      [] d = "PowerDown" -> 0

NoErr == [kind |-> "None", src |-> "none"]

Err(kind, src) == [ok |-> FALSE, val |-> 0, err |-> [kind |-> kind, src |-> src]]

Fail(e) == [ok |-> FALSE, val |-> 0, err |-> e]

Ok(v) == [ok |-> TRUE, val |-> v, err |-> NoErr]

\* Mutant of RangeTryFrom: only the low two bits of the code are looked up.
RangeTryFrom_two_bits(code) ==
    IF \E r \in Range : RangeBits(r) = code % 4
    THEN Ok(CHOOSE r \in Range : RangeBits(r) = code % 4)
    ELSE Err("TryFromPrimitiveError", "Range")

RangeTryFrom(code) ==
    IF \E r \in Range : RangeBits(r) = code
    THEN Ok(CHOOSE r \in Range : RangeBits(r) = code)
    ELSE Err("TryFromPrimitiveError", "Range")

DataRateTryFrom(code) ==
    IF \E d \in DataRate : DataRateBits(d) = code
    THEN Ok(CHOOSE d \in DataRate : DataRateBits(d) = code)
    ELSE Err("TryFromPrimitiveError", "DataRate")

(***************************************************************************)
(* The collaborators: a register-file device behind the transport.  While  *)
(* chip-select is low the device takes the first byte clocked in as the    *)
(* command (bit 7: read, bits 0-6: address) and the bytes after it as the  *)
(* payload of consecutive registers; a read returns the register contents, *)
(* a write stores the payload, and registers return the last value written.*)
(***************************************************************************)
ReadOnly ==
    { OUT_T, INFO1, INFO2, WHOAMI, STAT, STATUS,
      OUT_X_L, OUT_X_H, OUT_Y_L, OUT_Y_H, OUT_Z_L, OUT_Z_H }

RegVal(rg, a) == IF a \in Register THEN rg[a] ELSE 0

Respond(rg, sent) ==
    IF Len(sent) = 0 THEN [rx |-> <<>>, regs |-> rg]
    ELSE LET n == Len(sent)
             a == sent[1] % 128
             isRead == sent[1] >= 128
         IN  [ rx |-> [i \in 1..n |->
                          IF isRead /\ i >= 2 THEN RegVal(rg, a + i - 2) ELSE 0],
               regs |-> IF isRead THEN rg
                        ELSE [r \in Register |->
                                IF r >= a /\ r - a + 2 <= n /\ r \notin ReadOnly
                                THEN sent[r - a + 2] ELSE rg[r]] ]

\* What the transport and the pin do on one bus call: TRUE means the call succeeds.
Faults == [low : BOOLEAN, write : BOOLEAN, transfer : BOOLEAN, high : BOOLEAN]

NoFault == [low |-> TRUE, write |-> TRUE, transfer |-> TRUE, high |-> TRUE]

\* The outcomes that differ for each kind of call: nothing follows a failed
\* set_low, read_register never calls write, write_register never calls transfer.
ReadFaults == {f \in Faults : f.write /\ (~f.low => f.transfer /\ f.high)}

WriteFaults == {f \in Faults : f.transfer /\ (~f.low => f.write /\ f.high)}

BytesFaults == {f \in Faults : ~f.low => f.write /\ f.transfer /\ f.high}

Ev(op, tx, ok) == [op |-> op, tx |-> tx, ok |-> ok]

Call(fn, reg, val, res, wire) ==
    [fn |-> fn, reg |-> reg, val |-> val, ok |-> res.ok, err |-> res.err, wire |-> wire]

Bus(r) == [regs |-> r.regs, trace |-> r.trace]

Ret(b, rg, call, res) ==
    [regs |-> rg, trace |-> Append(b.trace, call), res |-> res]

(***************************************************************************)
(* commbus/spi.rs: impl CommBus for SPIBus.                                *)
(***************************************************************************)
\* Mutant of read_bytes: chip-select is released after the command byte and
\* asserted again for the exchange.
read_bytes_two_frames(b, register, bytes, f) ==
    IF ~f.low
    THEN LET e == Err("PinError", "set_low")
         IN  Ret(b, b.regs,
                 Call("read_bytes", register, bytes, e, <<Ev("set_low", <<>>, FALSE)>>), e)
    ELSE LET dev == Respond(b.regs, IF f.transfer THEN bytes ELSE <<>>)
             buf == IF f.transfer THEN dev.rx ELSE bytes
             wire == << Ev("set_low", <<>>, TRUE),
                        Ev("write", <<register>>, f.write),
                        Ev("set_high", <<>>, TRUE),
                        Ev("set_low", <<>>, TRUE),
                        Ev("transfer", bytes, f.transfer),
                        Ev("set_high", <<>>, f.high) >>
             ret == IF ~f.high THEN Err("PinError", "set_high")
                    ELSE IF ~f.write THEN Err("CommErr", "write")
                    ELSE IF ~f.transfer THEN Err("CommErr", "transfer")
                    ELSE Ok(buf)
         IN  Ret(b, dev.regs, Call("read_bytes", register, buf, ret, wire), ret)

\* Mutant of read_bytes: the exchange is skipped when the command byte failed.
read_bytes_skip_exchange(b, register, bytes, f) ==
    IF ~f.low
    THEN LET e == Err("PinError", "set_low")
         IN  Ret(b, b.regs,
                 Call("read_bytes", register, bytes, e, <<Ev("set_low", <<>>, FALSE)>>), e)
    ELSE LET exchanged == f.write /\ f.transfer
             sent == IF exchanged THEN <<register>> \o bytes ELSE <<>>
             dev == Respond(b.regs, sent)
             buf == IF exchanged THEN SubSeq(dev.rx, 2, Len(sent)) ELSE bytes
             wire == << Ev("set_low", <<>>, TRUE), Ev("write", <<register>>, f.write) >>
                     \o (IF f.write THEN <<Ev("transfer", bytes, f.transfer)>> ELSE <<>>)
                     \o << Ev("set_high", <<>>, f.high) >>
             ret == IF ~f.high THEN Err("PinError", "set_high")
                    ELSE IF ~f.write THEN Err("CommErr", "write")
                    ELSE IF ~f.transfer THEN Err("CommErr", "transfer")
                    ELSE Ok(buf)
         IN  Ret(b, dev.regs, Call("read_bytes", register, buf, ret, wire), ret)

read_bytes(b, register, bytes, f) ==
    IF ~f.low
    THEN LET e == Err("PinError", "set_low")
         IN  Ret(b, b.regs,
                 Call("read_bytes", register, bytes, e, <<Ev("set_low", <<>>, FALSE)>>), e)
    ELSE LET sent == (IF f.write THEN <<register>> ELSE <<>>)
                     \o (IF f.transfer THEN bytes ELSE <<>>)
             dev == Respond(b.regs, sent)
             buf == IF f.transfer
                    THEN SubSeq(dev.rx, Len(sent) - Len(bytes) + 1, Len(sent))
                    ELSE bytes
             res == IF f.write THEN Ok(0) ELSE Err("CommErr", "write")
             res2 == IF f.transfer THEN Ok(0) ELSE Err("CommErr", "transfer")
             wire == << Ev("set_low", <<>>, TRUE),
                        Ev("write", <<register>>, f.write),
                        Ev("transfer", bytes, f.transfer),
                        Ev("set_high", <<>>, f.high) >>
             ret == IF ~f.high THEN Err("PinError", "set_high")
                    ELSE IF ~res.ok THEN res
                    ELSE IF ~res2.ok THEN res2
                    ELSE Ok(buf)
         IN  Ret(b, dev.regs, Call("read_bytes", register, buf, ret, wire), ret)

\* Mutant of read_register: `?` on the transfer, so a failed transfer returns
\* before chip-select is released.
read_register_no_release(b, register, f) ==
    IF ~f.low
    THEN LET e == Err("PinError", "set_low")
         IN  Ret(b, b.regs,
                 Call("read_register", register, 0, e, <<Ev("set_low", <<>>, FALSE)>>), e)
    ELSE LET bytes == <<register, 0>>
             dev == Respond(b.regs, IF f.transfer THEN bytes ELSE <<>>)
             wire == << Ev("set_low", <<>>, TRUE), Ev("transfer", bytes, f.transfer) >>
                     \o (IF f.transfer THEN <<Ev("set_high", <<>>, f.high)>> ELSE <<>>)
             ret == IF ~f.transfer THEN Err("CommErr", "transfer")
                    ELSE IF ~f.high THEN Err("PinError", "set_high")
                    ELSE Ok(dev.rx[2])
         IN  Ret(b, dev.regs, Call("read_register", register, ret.val, ret, wire), ret)

read_register(b, register, f) ==
    IF ~f.low
    THEN LET e == Err("PinError", "set_low")
         IN  Ret(b, b.regs,
                 Call("read_register", register, 0, e, <<Ev("set_low", <<>>, FALSE)>>), e)
    ELSE LET bytes == <<register, 0>>
             dev == Respond(b.regs, IF f.transfer THEN bytes ELSE <<>>)
             res == IF f.transfer THEN Ok(dev.rx) ELSE Err("CommErr", "transfer")
             wire == << Ev("set_low", <<>>, TRUE),
                        Ev("transfer", bytes, f.transfer),
                        Ev("set_high", <<>>, f.high) >>
             ret == IF ~f.high THEN Err("PinError", "set_high")
                    ELSE IF ~res.ok THEN res
                    ELSE Ok(res.val[2])
         IN  Ret(b, dev.regs, Call("read_register", register, ret.val, ret, wire), ret)

\* Mutant of write_register: the failure of the assert is saved like a payload
\* result, so the bytes go out and chip-select is released before it returns.
write_register_assert_saved(b, register, value, f) ==
    LET bytes == <<register, value>>
        dev == Respond(b.regs, IF f.write THEN bytes ELSE <<>>)
        wire == << Ev("set_low", <<>>, f.low),
                   Ev("write", bytes, f.write),
                   Ev("set_high", <<>>, f.high) >>
        ret == IF ~f.low THEN Err("PinError", "set_low")
               ELSE IF ~f.high THEN Err("PinError", "set_high")
               ELSE IF ~f.write THEN Err("CommErr", "write")
               ELSE Ok(0)
    IN  Ret(b, dev.regs, Call("write_register", register, value, ret, wire), ret)

write_register(b, register, value, f) ==
    IF ~f.low
    THEN LET e == Err("PinError", "set_low")
         IN  Ret(b, b.regs,
                 Call("write_register", register, value, e, <<Ev("set_low", <<>>, FALSE)>>), e)
    ELSE LET bytes == <<register, value>>
             dev == Respond(b.regs, IF f.write THEN bytes ELSE <<>>)
             res == IF f.write THEN Ok(0) ELSE Err("CommErr", "write")
             wire == << Ev("set_low", <<>>, TRUE),
                        Ev("write", bytes, f.write),
                        Ev("set_high", <<>>, f.high) >>
             ret == IF ~f.high THEN Err("PinError", "set_high")
                    ELSE IF ~res.ok THEN res
                    ELSE Ok(0)
         IN  Ret(b, dev.regs, Call("write_register", register, value, ret, wire), ret)

delay_ms(b, ms) ==
    [ regs |-> b.regs,
      trace |-> Append(b.trace, Call("delay_ms", 0, ms, Ok(0), <<>>)),
      res |-> Ok(0) ]

(***************************************************************************)
(* lib.rs: the controller's operations.  fs is the sequence of what the    *)
(* transport and the pin do on the operation's successive bus calls.       *)
(***************************************************************************)
get_device_id(b, f) == read_register(b, read(WHOAMI), f)

\* Mutant of axis_bits: the three enable bits are set but never cleared.
axis_bits_no_clear(v, x, y, z) ==
    LET v1 == BitOr(v, IF x THEN X_EN ELSE 0)
        v2 == BitOr(v1, IF y THEN Y_EN ELSE 0)
    IN  BitOr(v2, IF z THEN Z_EN ELSE 0)

axis_bits(v, x, y, z) ==
    LET v0 == BitAnd(v, BitNot8(BitOr(BitOr(X_EN, Y_EN), Z_EN)))
        v1 == BitOr(v0, IF x THEN X_EN ELSE 0)
        v2 == BitOr(v1, IF y THEN Y_EN ELSE 0)
    IN  BitOr(v2, IF z THEN Z_EN ELSE 0)

enable_axis(b, x, y, z, fs) ==
    LET r == read_register(b, read(CTRL_REG4), fs[1])
    IN  IF ~r.res.ok THEN r
        ELSE write_register(Bus(r), write(CTRL_REG4), axis_bits(r.res.val, x, y, z), fs[2])

\* Mutant of odr_bits: the code is not shifted to the rate field.
odr_bits_unshifted(v, datarate) ==
    BitOr(BitAnd(v, BitNot8(ODR_MASK)), DataRateBits(datarate))

\* Mutant of odr_bits: the register is overwritten with the rate field alone.
odr_bits_overwrite(v, datarate) == Shl8(DataRateBits(datarate), ODR_OFFSET)

\* Mutant of odr_bits: the rate field is not cleared before the code is set.
odr_bits_no_clear(v, datarate) ==
    BitOr(v, Shl8(DataRateBits(datarate), ODR_OFFSET))

odr_bits(v, datarate) ==
    BitOr(BitAnd(v, BitNot8(ODR_MASK)), Shl8(DataRateBits(datarate), ODR_OFFSET))

\* Mutant of set_datarate: the new value is written to CTRL_REG5.
set_datarate_wrong_register(b, datarate, fs) ==
    LET r == read_register(b, read(CTRL_REG4), fs[1])
    IN  IF ~r.res.ok THEN r
        ELSE write_register(Bus(r), write(CTRL_REG5), odr_bits(r.res.val, datarate), fs[2])

\* Mutant of set_datarate: a failed read is dropped and the write goes out.
set_datarate_write_anyway(b, datarate, fs) ==
    LET r == read_register(b, read(CTRL_REG4), fs[1])
    IN  write_register(Bus(r), write(CTRL_REG4), odr_bits(r.res.val, datarate), fs[2])

set_datarate(b, datarate, fs) ==
    LET r == read_register(b, read(CTRL_REG4), fs[1])
    IN  IF ~r.res.ok THEN r
        ELSE write_register(Bus(r), write(CTRL_REG4), odr_bits(r.res.val, datarate), fs[2])

get_datarate(b, f) ==
    LET r == read_register(b, read(CTRL_REG4), f)
    IN  IF ~r.res.ok THEN r
        ELSE LET odr == Shr(BitAnd(r.res.val, ODR_MASK), ODR_OFFSET)
                 t == DataRateTryFrom(odr)
             IN  [r EXCEPT !.res = IF t.ok THEN t ELSE Err("InvalidDataRate", "get_datarate")]

\* Mutant of fs_bits: bit 0 of the value read is kept.
fs_bits_keep_bit0(ctrl5, range) ==
    BitOr(BitAnd(ctrl5, BitNot8(FS_MASK)), Shl8(RangeBits(range), FS_OFFSET))

fs_bits(ctrl5, range) ==
    LET c0 == BitAnd(ctrl5, BitNot8(FS_MASK))
        c1 == BitOr(c0, BitAnd(Shl8(RangeBits(range), FS_OFFSET), FS_MASK))
    IN  BitAnd(c1, BitNot8(1))

set_range(b, range, fs) ==
    LET r == read_register(b, read(CTRL_REG5), fs[1])
    IN  IF ~r.res.ok THEN r
        ELSE write_register(Bus(r), write(CTRL_REG5), fs_bits(r.res.val, range), fs[2])

get_range(b, f) ==
    LET r == read_register(b, read(CTRL_REG5), f)
    IN  IF ~r.res.ok THEN r
        ELSE LET fs == Shr(BitAnd(r.res.val, FS_MASK), FS_OFFSET)
                 t == RangeTryFrom(fs)
             IN  [r EXCEPT !.res = IF t.ok THEN t ELSE Err("InvalidRange", "get_range")]

\* Mutant of axis_i16: the big-endian assembly.
axis_i16_big_endian(lo, hi) == AsI16(BitOr(Shl16(lo, 8), hi))

axis_i16(lo, hi) == AsI16(BitOr(Shl16(hi, 8), lo))

accel_raw(b, f) ==
    LET r == read_bytes(b, read(OUT_X_L), <<0, 0, 0, 0, 0, 0>>, f)
    IN  IF ~r.res.ok THEN [r EXCEPT !.res = Err("Bus", "accel_raw")]
        ELSE LET accel_bytes == r.res.val
             IN  [r EXCEPT !.res =
                     Ok(<< axis_i16(accel_bytes[1], accel_bytes[2]),
                           axis_i16(accel_bytes[3], accel_bytes[4]),
                           axis_i16(accel_bytes[5], accel_bytes[6]) >>)]

get_status_reg(b, reg, f) ==
    IF reg \in 1..6
    THEN LET register == CASE reg = 1 -> CTRL_REG1
                           [] reg = 2 -> CTRL_REG2
                           [] reg = 3 -> CTRL_REG3
                           [] reg = 4 -> CTRL_REG4
                           [] reg = 5 -> CTRL_REG5
                           [] reg = 6 -> CTRL_REG6
         IN  read_register(b, read(register), f)
    ELSE [regs |-> b.regs, trace |-> b.trace, res |-> Err("InvalidRange", "get_status_reg")]

ZYXDA_MASK == Shl8(1, 3)

zyxda(status) == BitAnd(status, ZYXDA_MASK) # 0

get_status(b, f) == read_register(b, read(STATUS), f)

has_data(b, f) ==
    LET r == get_status(b, f)
    IN  IF ~r.res.ok THEN r ELSE [r EXCEPT !.res = Ok(zyxda(r.res.val))]

\* DataRate::sample_rate, in thousandths of a hertz.
sample_rate_mHz(d) ==
    CASE d = "Hz_1600" -> 1600000
      [] d = "Hz_800" -> 800000
      [] d = "Hz_400" -> 400000
      [] d = "Hz_100" -> 100000
      [] d = "Hz_50" -> 50000
      [] d = "Hz_25" -> 25000
      [] d = "Hz_12" -> 12500
      [] d = "Hz_6" -> 6250
      [] d = "Hz_3" -> 3125
      [] d = "PowerDown" -> 0

sample_rate(b, f) ==
    LET r == get_datarate(b, f)
    IN  IF ~r.res.ok THEN r ELSE [r EXCEPT !.res = Ok(sample_rate_mHz(r.res.val))]

\* The scale of accel_norm (0.06, 0.12, 0.18, 0.24, 0.73 divided by 1000.0),
\* in units of 0.00001 g per LSB; the products are exact, without f32 rounding.
scale_e5(range) ==
    CASE range = "G2" -> 6
      [] range = "G4" -> 12
      [] range = "G6" -> 18
      [] range = "G8" -> 24
      [] range = "G16" -> 73

\* Mutant of accel_norm: the sample is read before the range.
accel_norm_sample_first(b, fs) ==
    LET a == accel_raw(b, fs[2])
    IN  IF ~a.res.ok THEN a
        ELSE LET g == get_range(Bus(a), fs[1])
             IN  IF ~g.res.ok THEN g
                 ELSE [g EXCEPT !.res =
                          Ok(<< a.res.val[1] * scale_e5(g.res.val),
                                a.res.val[2] * scale_e5(g.res.val),
                                a.res.val[3] * scale_e5(g.res.val) >>)]

accel_norm(b, fs) ==
    LET g == get_range(b, fs[1])
    IN  IF ~g.res.ok THEN g
        ELSE LET scale == scale_e5(g.res.val)
                 a == accel_raw(Bus(g), fs[2])
             IN  IF ~a.res.ok THEN a
                 ELSE LET acc_raw == a.res.val
                      IN  [a EXCEPT !.res =
                              Ok(<< acc_raw[1] * scale,
                                    acc_raw[2] * scale,
                                    acc_raw[3] * scale >>)]

(***************************************************************************)
(* The driver in use: new_with_interface runs init line by line, and a     *)
(* controller that was returned serves the caller's operations.            *)
(***************************************************************************)
Result(op, res) == [op |-> op, ok |-> res.ok, val |-> res.val, err |-> res.err]

\* The same, with the argument the caller passed.
ResultArg(op, arg, res) ==
    [op |-> op, arg |-> arg, ok |-> res.ok, val |-> res.val, err |-> res.err]

Pending == Result("pending", Ok(0))

\* Register contents at power-on, identity bytes of the chip on the bus, and
\* the samples the device produces.
PowerOn == {0, 7, 255}

Identities == {63, 0, 59}

Samples ==
    { <<52, 18, 0, 0, 205, 171>>, <<255, 255, 0, 128, 255, 127>> }

LoadSample(rg, s) ==
    [r \in Register |->
        IF r >= OUT_X_L /\ r <= OUT_Z_H THEN s[r - OUT_X_L + 1] ELSE rg[r]]

Init ==
    /\ \E id \in Identities, c4 \in PowerOn, c5 \in PowerOn, s \in Samples :
          regs = LoadSample([r \in Register |->
                                IF r = WHOAMI THEN id
                                ELSE IF r = CTRL_REG4 THEN c4
                                ELSE IF r = CTRL_REG5 THEN c5
                                ELSE 0], s)
    /\ trace = <<>>
    /\ pc = "new"
    /\ result = Result("none", Ok(0))

Here == [regs |-> regs, trace |-> trace]

Fresh == [regs |-> regs, trace |-> <<>>]

\* One line of init: `?` returns the failure, otherwise init goes on.
\* Mutant of InitLine: the failure of a line is dropped and init goes on.
InitLine_ignore_failure(r, next) ==
    /\ regs' = r.regs
    /\ trace' = r.trace
    /\ pc' = next
    /\ result' = IF next = "ready"
                 THEN Result("new_with_interface", Ok(0))
                 ELSE Pending

InitLine(r, next) ==
    /\ regs' = r.regs
    /\ trace' = r.trace
    /\ IF r.res.ok
       THEN /\ pc' = next
            /\ result' = IF next = "ready"
                         THEN Result("new_with_interface", Ok(0))
                         ELSE Pending
       ELSE /\ pc' = "failed"
            /\ result' = Result("new_with_interface", Fail(r.res.err))

InitReset ==
    /\ pc \in {"new", "failed"}
    /\ \E f \in WriteFaults :
          InitLine(write_register(Fresh, write(CTRL_REG3), STRESET, f), "delay1")

InitDelay1 ==
    /\ pc = "delay1"
    /\ InitLine(delay_ms(Here, 5), "exit_reset")

InitExitReset ==
    /\ pc = "exit_reset"
    /\ \E f \in WriteFaults :
          InitLine(write_register(Here, write(CTRL_REG3), 0, f), "delay2")

InitDelay2 ==
    /\ pc = "delay2"
    /\ InitLine(delay_ms(Here, 5), "clear_ctrl5")

InitClearCtrl5 ==
    /\ pc = "clear_ctrl5"
    /\ \E f \in WriteFaults :
          InitLine(write_register(Here, write(CTRL_REG5), 0, f), "set_bdu")

InitSetBdu ==
    /\ pc = "set_bdu"
    /\ \E f \in WriteFaults :
          InitLine(write_register(Here, write(CTRL_REG4), BDU, f), "check_id")

\* Mutant of check_id: the identity byte is read and not compared.
check_id_unchecked(b, f) == get_device_id(b, f)

check_id(b, f) ==
    LET r == get_device_id(b, f)
    IN  IF ~r.res.ok THEN r
        ELSE IF r.res.val # DEVICE_ID
        THEN [r EXCEPT !.res = Err("WrongAddress", "init")]
        ELSE r

InitCheckId ==
    /\ pc = "check_id"
    /\ \E f \in ReadFaults : InitLine(check_id(Here, f), "set_datarate")

\* Mutant of InitSetDatarate: the range is set where the data rate should be.
InitSetDatarate_range_first ==
    /\ pc = "set_datarate"
    /\ \E f1 \in ReadFaults, f2 \in WriteFaults :
          InitLine(set_range(Here, "G8", <<f1, f2>>), "set_range")

InitSetDatarate ==
    /\ pc = "set_datarate"
    /\ \E f1 \in ReadFaults, f2 \in WriteFaults :
          InitLine(set_datarate(Here, "Hz_100", <<f1, f2>>), "set_range")

InitSetRange ==
    /\ pc = "set_range"
    /\ \E f1 \in ReadFaults, f2 \in WriteFaults :
          InitLine(set_range(Here, "G8", <<f1, f2>>), "enable_axis")

InitEnableAxis ==
    /\ pc = "enable_axis"
    /\ \E f1 \in ReadFaults, f2 \in WriteFaults :
          InitLine(enable_axis(Here, TRUE, TRUE, TRUE, <<f1, f2>>), "ready")

\* An operation on the controller the caller holds: it runs to its return.
Operation(res, r) ==
    /\ regs' = r.regs
    /\ trace' = r.trace
    /\ result' = res
    /\ pc' = "returned"

\* The caller has the result and the controller, for the next call.
Return ==
    /\ pc = "returned"
    /\ pc' = "ready"
    /\ trace' = <<>>
    /\ result' = Result("none", Ok(0))
    /\ regs' = regs

GetDeviceId ==
    /\ pc = "ready"
    /\ \E f \in ReadFaults :
          LET r == get_device_id(Fresh, f)
          IN  Operation(Result("get_device_id", r.res), r)

GetStatusReg ==
    /\ pc = "ready"
    /\ \E reg \in 0..7, f \in ReadFaults :
          LET r == get_status_reg(Fresh, reg, f)
          IN  Operation(ResultArg("get_status_reg", reg, r.res), r)

SetDatarate ==
    /\ pc = "ready"
    /\ \E d \in DataRate, f1 \in ReadFaults, f2 \in WriteFaults :
          LET r == set_datarate(Fresh, d, <<f1, f2>>)
          IN  Operation(ResultArg("set_datarate", d, r.res), r)

GetDatarate ==
    /\ pc = "ready"
    /\ \E f \in ReadFaults :
          LET r == get_datarate(Fresh, f)
          IN  Operation(Result("get_datarate", r.res), r)

SetRange ==
    /\ pc = "ready"
    /\ \E g \in Range, f1 \in ReadFaults, f2 \in WriteFaults :
          LET r == set_range(Fresh, g, <<f1, f2>>)
          IN  Operation(ResultArg("set_range", g, r.res), r)

GetRange ==
    /\ pc = "ready"
    /\ \E f \in ReadFaults :
          LET r == get_range(Fresh, f)
          IN  Operation(Result("get_range", r.res), r)

HasData ==
    /\ pc = "ready"
    /\ \E f \in ReadFaults :
          LET r == has_data(Fresh, f)
          IN  Operation(Result("has_data", r.res), r)

AccelRaw ==
    /\ pc = "ready"
    /\ \E f \in BytesFaults :
          LET r == accel_raw(Fresh, f)
          IN  Operation(Result("accel_raw", r.res), r)

AccelNorm ==
    /\ pc = "ready"
    /\ \E f1 \in ReadFaults, f2 \in BytesFaults :
          LET r == accel_norm(Fresh, <<f1, f2>>)
          IN  Operation(Result("accel_norm", r.res), r)

SampleRate ==
    /\ pc = "ready"
    /\ \E f \in ReadFaults :
          LET r == sample_rate(Fresh, f)
          IN  Operation(Result("sample_rate", r.res), r)

\* The device latches a new sample into its output registers.
NewSample ==
    /\ pc = "ready"
    /\ \E s \in Samples : regs' = LoadSample(regs, s)
    /\ UNCHANGED <<trace, pc, result>>

Next ==
    \/ InitReset
    \/ InitDelay1
    \/ InitExitReset
    \/ InitDelay2
    \/ InitClearCtrl5
    \/ InitSetBdu
    \/ InitCheckId
    \/ InitSetDatarate
    \/ InitSetRange
    \/ InitEnableAxis
    \/ GetDeviceId
    \/ GetStatusReg
    \/ SetDatarate
    \/ GetDatarate
    \/ SetRange
    \/ GetRange
    \/ HasData
    \/ AccelRaw
    \/ AccelNorm
    \/ SampleRate
    \/ Return
    \/ NewSample

Spec == Init /\ [][Next]_vars

(***************************************************************************)
(* The codecs and single operations against a device preloaded with a      *)
(* chosen register content: one operation per run.                         *)
(***************************************************************************)
InitMock ==
    /\ regs = [r \in Register |-> IF r = WHOAMI THEN DEVICE_ID ELSE 0]
    /\ trace = <<>>
    /\ pc = "idle"
    /\ result = Result("none", Ok(0))

Preload(a, v) == [regs |-> [regs EXCEPT ![a] = v], trace |-> <<>>]

MockRun(op, r) ==
    /\ pc' = "done"
    /\ regs' = r.regs
    /\ trace' = r.trace
    /\ result' = Result(op, r.res)

MockRegister ==
    /\ pc = "idle"
    /\ \E r \in Register :
          MockRun("Register",
                  [ regs |-> regs, trace |-> <<>>,
                    res |-> Ok([reg |-> r, addr |-> addr(r),
                                read |-> read(r), write |-> write(r)]) ])

MockGetRange ==
    /\ pc = "idle"
    /\ \E v \in Byte : MockRun("get_range", get_range(Preload(CTRL_REG5, v), NoFault))

MockGetDatarate ==
    /\ pc = "idle"
    /\ \E v \in Byte :
          MockRun("get_datarate", get_datarate(Preload(CTRL_REG4, v), NoFault))

AxisSample(k, lo, hi) ==
    [i \in 1..6 |-> IF i = 2 * k - 1 THEN lo ELSE IF i = 2 * k THEN hi ELSE 0]

MockAccelRaw(s) ==
    MockRun("accel_raw",
            accel_raw([regs |-> LoadSample(regs, s), trace |-> <<>>], NoFault))

MockAccelRawSample ==
    /\ pc = "idle"
    /\ \E s \in Samples : MockAccelRaw(s)

MockAccelRawAxis ==
    /\ pc = "idle"
    /\ \E k \in 1..3, lo \in Byte, hi \in Byte : MockAccelRaw(AxisSample(k, lo, hi))

MockRunArg(op, arg, r) ==
    /\ pc' = "done"
    /\ regs' = r.regs
    /\ trace' = r.trace
    /\ result' = ResultArg(op, arg, r.res)

MockRangeCodec ==
    /\ pc = "idle"
    /\ \E r \in Range :
          MockRunArg("Range", r,
                     [ regs |-> regs, trace |-> <<>>,
                       res |-> Ok([bits |-> RangeBits(r),
                                   back |-> RangeTryFrom(RangeBits(r))]) ])

MockDataRateCodec ==
    /\ pc = "idle"
    /\ \E d \in DataRate :
          MockRunArg("DataRate", d,
                     [ regs |-> regs, trace |-> <<>>,
                       res |-> Ok([bits |-> DataRateBits(d),
                                   back |-> DataRateTryFrom(DataRateBits(d))]) ])

MockSetDatarate ==
    /\ pc = "idle"
    /\ \E v \in Byte, d \in DataRate :
          MockRunArg("set_datarate", d,
                     set_datarate(Preload(CTRL_REG4, v), d, <<NoFault, NoFault>>))

MockSetRange ==
    /\ pc = "idle"
    /\ \E v \in Byte, g \in Range :
          MockRunArg("set_range", g,
                     set_range(Preload(CTRL_REG5, v), g, <<NoFault, NoFault>>))

MockEnableAxis ==
    /\ pc = "idle"
    /\ \E v \in Byte, x \in BOOLEAN, y \in BOOLEAN, z \in BOOLEAN :
          MockRunArg("enable_axis", <<x, y, z>>,
                     enable_axis(Preload(CTRL_REG4, v), x, y, z, <<NoFault, NoFault>>))

MockHasData ==
    /\ pc = "idle"
    /\ \E v \in Byte : MockRun("has_data", has_data(Preload(STATUS, v), NoFault))

\* accel_norm on any content of CTRL_REG5, with the bus calls failing or not.
MockAccelNorm ==
    /\ pc = "idle"
    /\ \E v \in Byte, s \in Samples, f1 \in ReadFaults, f2 \in BytesFaults :
          MockRun("accel_norm",
                  accel_norm([regs |-> LoadSample([regs EXCEPT ![CTRL_REG5] = v], s),
                              trace |-> <<>>], <<f1, f2>>))

NextMock ==
    \/ MockRegister
    \/ MockGetRange
    \/ MockGetDatarate
    \/ MockAccelRawSample
    \/ MockAccelRawAxis
    \/ MockRangeCodec
    \/ MockDataRateCodec
    \/ MockSetDatarate
    \/ MockSetRange
    \/ MockEnableAxis
    \/ MockHasData
    \/ MockAccelNorm

SpecMock == InitMock /\ [][NextMock]_vars

(***************************************************************************)
(* Properties.                                                             *)
(***************************************************************************)
BusCalls == {i \in DOMAIN trace : trace[i].fn # "delay_ms"}

Count(wire, op) == Cardinality({k \in DOMAIN wire : wire[k].op = op})

PayloadFailed(wire) ==
    \E k \in DOMAIN wire : wire[k].op \in {"write", "transfer"} /\ ~wire[k].ok

\* The trace is that of a construction (new_with_interface running init).
Constructing == result.op \in {"pending", "new_with_interface"}

\* C1 as stated: every transaction attempt of read_register, write_register and
\* read_bytes, whatever succeeds or fails (the chip-select assert included),
\* makes exactly one assert call and exactly one deassert call.
C1_Original ==
    \A i \in BusCalls :
        /\ Count(trace[i].wire, "set_low") = 1
        /\ Count(trace[i].wire, "set_high") = 1

\* C1 amended: every transaction attempt makes exactly one assert call, first;
\* when the assert succeeds it makes exactly one deassert call, last, whatever
\* the transfer phases and the deassert do; when the assert fails it makes no
\* deassert call.
C1_Framing ==
    \A i \in BusCalls :
        LET wire == trace[i].wire
        IN  /\ Count(wire, "set_low") = 1
            /\ wire[1].op = "set_low"
            /\ wire[1].ok =>
                  /\ Count(wire, "set_high") = 1
                  /\ wire[Len(wire)].op = "set_high"
            /\ ~wire[1].ok => Count(wire, "set_high") = 0

C1_Witness ==
    \E i \in BusCalls :
        /\ trace[i].fn = "read_bytes"
        /\ Len(trace[i].wire) = 4
        /\ ~trace[i].wire[2].ok
        /\ ~trace[i].wire[3].ok
        /\ ~trace[i].wire[4].ok

\* C2 as stated: when a payload phase fails, the caller gets the transfer
\* failure (CommErr) even if the deassert fails too; the deassert failure
\* (PinError) is returned only when the payload phase succeeded.
C2_Original ==
    \A i \in BusCalls :
        trace[i].wire[1].ok =>
            /\ PayloadFailed(trace[i].wire) => trace[i].err.kind = "CommErr"
            /\ trace[i].err = [kind |-> "PinError", src |-> "set_high"]
                  => ~PayloadFailed(trace[i].wire)

InitPlan ==
    << <<"write_register", 35>>, <<"delay_ms", 0>>,
       <<"write_register", 35>>, <<"delay_ms", 0>>,
       <<"write_register", 36>>, <<"write_register", 32>>,
       <<"read_register", 143>>,
       <<"read_register", 160>>, <<"write_register", 32>>,
       <<"read_register", 164>>, <<"write_register", 36>>,
       <<"read_register", 160>>, <<"write_register", 32>> >>

\* C3: the calls of an initialization are, in this order and with nothing
\* between them: write 1 to CTRL_REG3, delay 5 ms, write 0 to CTRL_REG3, delay
\* 5 ms, write 0 to CTRL_REG5, write the block-data-update bit to CTRL_REG4,
\* read WHOAMI, read then write CTRL_REG4 (rate code of 100 Hz), read then write
\* CTRL_REG5 (range code of 8g), read then write CTRL_REG4 (X, Y, Z enabled); a
\* successful initialization made all of them, with exactly two delays of 5 ms.
C3_InitOrder ==
    Constructing =>
        /\ Len(trace) <= Len(InitPlan)
        /\ \A i \in DOMAIN trace :
              /\ <<trace[i].fn, trace[i].reg>> = InitPlan[i]
              /\ i = 1 => trace[i].val = 1
              /\ i \in {2, 4} => trace[i].val = 5
              /\ i \in {3, 5} => trace[i].val = 0
              /\ i = 6 => trace[i].val = 8
              /\ i = 9 => trace[i].val \div 16 = 6
              /\ i = 11 => (trace[i].val \div 8) % 8 = 3
              /\ i = 13 => trace[i].val % 8 = 7
        /\ (pc = "ready" /\ result.ok) =>
              /\ Len(trace) = Len(InitPlan)
              /\ Cardinality({i \in DOMAIN trace : trace[i].fn = "delay_ms"}) = 2

C3_Witness == pc = "ready" /\ result.op = "new_with_interface" /\ Len(trace) = 13

\* C4: an identity byte other than 63 read during initialization is the last
\* call of the initialization, which fails with WrongAddress and returns no
\* controller.
C4_WrongAddress ==
    \A i \in DOMAIN trace :
        (trace[i].fn = "read_register" /\ trace[i].reg = 143
            /\ trace[i].ok /\ trace[i].val # 63)
        => /\ i = Len(trace)
           /\ pc = "failed"
           /\ result.op = "new_with_interface"
           /\ ~result.ok
           /\ result.err.kind = "WrongAddress"

C4_Witness ==
    /\ pc = "failed"
    /\ result.err.kind = "WrongAddress"
    /\ Len(trace) = 7
    /\ trace[7].val = 59

\* C5: a failed register transaction of the initialization is its last call
\* (no transaction and no delay follows it) and initialization returns exactly
\* that failure.
C5_InitAborts ==
    Constructing =>
        \A i \in DOMAIN trace :
            ~trace[i].ok =>
                /\ i = Len(trace)
                /\ pc = "failed"
                /\ result.op = "new_with_interface"
                /\ ~result.ok
                /\ result.err = trace[i].err

C5_Witness ==
    /\ pc = "failed"
    /\ Len(trace) = 3
    /\ ~trace[3].ok
    /\ trace[3].err.kind = "CommErr"
    /\ result.err = trace[3].err

\* C6: after a successful initialization (identity 63, registers returning the
\* last value written) get_datarate returns 100 Hz and get_range returns 8g.
C6_InitReadback ==
    (pc = "ready" /\ result.op = "new_with_interface" /\ result.ok) =>
        /\ get_datarate(Fresh, NoFault).res = Ok("Hz_100")
        /\ get_range(Fresh, NoFault).res = Ok("G8")

C6_Witness ==
    /\ pc = "ready"
    /\ result.op = "new_with_interface"
    /\ result.ok
    /\ regs[WHOAMI] = 63

\* C7: a read_bytes whose assert succeeded is one frame: assert, the single
\* read-command byte, the exchange of the buffer, deassert, in this order; and
\* accel_raw issues exactly one read_bytes, of 6 bytes from OUT_X_L.
C7_BurstFrame ==
    /\ \A i \in BusCalls :
          (trace[i].fn = "read_bytes" /\ trace[i].wire[1].ok) =>
              LET wire == trace[i].wire
              IN  /\ [k \in DOMAIN wire |-> wire[k].op]
                        = <<"set_low", "write", "transfer", "set_high">>
                  /\ wire[2].tx = <<trace[i].reg>>
    /\ result.op = "accel_raw" =>
          /\ Len(trace) = 1
          /\ trace[1].fn = "read_bytes"
          /\ trace[1].reg = 168
          /\ trace[1].wire[1].ok => Len(trace[1].wire[3].tx) = 6

C7_Witness ==
    /\ result.op = "accel_raw"
    /\ result.ok
    /\ Len(trace[1].wire) = 4

S16(n) == IF n >= 32768 THEN n - 65536 ELSE n

\* C8: accel_raw yields X = signed16(b[1]*256 + b[0]), Y = signed16(b[3]*256 +
\* b[2]), Z = signed16(b[5]*256 + b[4]) of the burst result b, the contents of
\* the six output registers; bytes 0x34 0x12 0x00 0x00 0xCD 0xAB yield 0x1234,
\* 0 and 0xABCD as a signed 16-bit value.
C8_RawSample ==
    (result.op = "accel_raw" /\ result.ok) =>
        LET b == trace[1].val
        IN  /\ b = [i \in 1..6 |-> regs[39 + i]]
            /\ result.val = << S16(b[2] * 256 + b[1]),
                               S16(b[4] * 256 + b[3]),
                               S16(b[6] * 256 + b[5]) >>
            /\ b = <<52, 18, 0, 0, 205, 171>> => result.val = <<4660, 0, -21555>>

C8_Witness ==
    /\ result.op = "accel_raw"
    /\ result.ok
    /\ trace[1].val = <<52, 18, 0, 0, 205, 171>>

\* C9: for every register of the map the address is at most 0x7F, the read
\* command is the address with bit 7 set, the write command is the address
\* unchanged, the low 7 bits of both are the address, and the two differ.
C9_Commands ==
    result.op = "Register" =>
        LET v == result.val
        IN  /\ v.addr = v.reg
            /\ v.addr <= 127
            /\ v.read = v.addr + 128
            /\ v.write = v.addr
            /\ v.read % 128 = v.addr
            /\ v.write % 128 = v.addr
            /\ v.read # v.write

C9_Witness ==
    /\ result.op = "Register"
    /\ result.val.reg = 45
    /\ result.val.read = 173

\* C10: get_range returns a Range exactly for the 3-bit codes 0..4 and
\* InvalidRange for 5, 6 and 7; get_datarate returns a DataRate exactly for the
\* 4-bit codes 0..9 and InvalidDataRate for 10..15.
C10_RejectsCodes ==
    /\ result.op = "get_range" =>
          IF (trace[1].val \div 8) % 8 <= 4
          THEN result.ok /\ result.val \in Range
          ELSE ~result.ok /\ result.err.kind = "InvalidRange"
    /\ result.op = "get_datarate" =>
          IF trace[1].val \div 16 <= 9
          THEN result.ok /\ result.val \in DataRate
          ELSE ~result.ok /\ result.err.kind = "InvalidDataRate"

C10_Witness ==
    /\ result.op = "get_range"
    /\ ~result.ok
    /\ (trace[1].val \div 8) % 8 = 7

\* C11: decoding the code of each of the five Range values and of each of the
\* ten DataRate values yields that value, and distinct values have distinct
\* codes (3-bit and 4-bit).
C11_RoundTrip ==
    /\ result.op \in {"Range", "DataRate"} =>
          /\ result.val.back.ok
          /\ result.val.back.val = result.arg
    /\ result.op = "Range" => result.val.bits \in 0..7
    /\ result.op = "DataRate" => result.val.bits \in 0..15
    /\ Cardinality({RangeBits(r) : r \in Range}) = 5
    /\ Cardinality({DataRateBits(d) : d \in DataRate}) = 10

C11_Witness ==
    /\ result.op = "DataRate"
    /\ result.arg = "Hz_1600"
    /\ result.val.bits = 9
    /\ result.val.back.val = "Hz_1600"

\* C12: in every controller operation a failed transaction is the last call
\* the operation makes and the operation returns an error: the failure itself,
\* or the bus error accel_raw makes of a failed burst read; in set_datarate,
\* set_range and enable_axis a write is issued only after a successful read.
C12_NoRetry ==
    /\ \A i \in DOMAIN trace :
          ~trace[i].ok =>
              /\ i = Len(trace)
              /\ result.op # "pending"
              /\ ~result.ok
              /\ IF trace[i].fn = "read_bytes"
                 THEN result.err.kind = "Bus"
                 ELSE result.err = trace[i].err
    /\ \A i \in DOMAIN trace :
          (trace[i].fn = "write_register" /\ trace[i].reg \in {32, 36}
              /\ (Constructing => i > 6))
          => /\ trace[i - 1].fn = "read_register"
             /\ trace[i - 1].reg = trace[i].reg + 128
             /\ trace[i - 1].ok

C12_Witness ==
    /\ result.op = "set_datarate"
    /\ Len(trace) = 1
    /\ ~trace[1].ok
    /\ result.err = trace[1].err

\* C13: set_datarate(rate) reads CTRL_REG4 once and then writes CTRL_REG4
\* once; for every read value v and every DataRate the byte written has bits
\* 4-7 equal to the rate's code and bits 0-3 equal to bits 0-3 of v.
C13_SetDatarate ==
    result.op = "set_datarate" =>
        /\ result.ok
        /\ Len(trace) = 2
        /\ trace[1].fn = "read_register" /\ trace[1].reg = 128 + 32
        /\ trace[2].fn = "write_register" /\ trace[2].reg = 32
        /\ trace[2].val \in Byte
        /\ trace[2].val \div 16 = DataRateBits(result.arg)
        /\ trace[2].val % 16 = trace[1].val % 16
        /\ regs[CTRL_REG4] = trace[2].val

C13_Witness ==
    /\ result.op = "set_datarate"
    /\ result.arg = "Hz_3"
    /\ trace[1].val = 255
    /\ trace[2].val = 31

\* C14: set_range(range) reads CTRL_REG5 once and then writes CTRL_REG5 once;
\* for every read value v and every Range the byte written has bits 3-5 equal
\* to the range's code, bit 0 clear, and bits 1, 2, 6 and 7 equal to those of v.
C14_SetRange ==
    result.op = "set_range" =>
        /\ result.ok
        /\ Len(trace) = 2
        /\ trace[1].fn = "read_register" /\ trace[1].reg = 128 + 36
        /\ trace[2].fn = "write_register" /\ trace[2].reg = 36
        /\ trace[2].val \in Byte
        /\ (trace[2].val \div 8) % 8 = RangeBits(result.arg)
        /\ trace[2].val % 2 = 0
        /\ (trace[2].val \div 2) % 4 = (trace[1].val \div 2) % 4
        /\ trace[2].val \div 64 = trace[1].val \div 64
        /\ regs[CTRL_REG5] = trace[2].val

C14_Witness ==
    /\ result.op = "set_range"
    /\ result.arg = "G2"
    /\ trace[1].val = 255
    /\ trace[2].val = 198

\* C15: the axis-enable update writes a byte whose bits 3-7 are those of the
\* CTRL_REG4 value just read, for all 256 read values and all 8 (x, y, z)
\* combinations, and whose bit 0 is x, bit 1 is y and bit 2 is z.
C15_EnableAxis ==
    result.op = "enable_axis" =>
        /\ result.ok
        /\ Len(trace) = 2
        /\ trace[1].fn = "read_register" /\ trace[1].reg = 128 + 32
        /\ trace[2].fn = "write_register" /\ trace[2].reg = 32
        /\ trace[2].val \in Byte
        /\ trace[2].val \div 8 = trace[1].val \div 8
        /\ (trace[2].val % 2 = 1) = result.arg[1]
        /\ ((trace[2].val \div 2) % 2 = 1) = result.arg[2]
        /\ ((trace[2].val \div 4) % 2 = 1) = result.arg[3]

C15_Witness ==
    /\ result.op = "enable_axis"
    /\ result.arg = <<FALSE, TRUE, FALSE>>
    /\ trace[1].val = 255
    /\ trace[2].val = 250

\* The factors of the claim, by range code, in units of 0.01 milli-g per LSB.
FactorOfCode(code) ==
    CASE code = 0 -> 6 [] code = 1 -> 12 [] code = 2 -> 18 [] code = 3 -> 24
      [] code = 4 -> 73

\* C16: accel_norm first reads CTRL_REG5 and only then burst-reads the sample,
\* and scales each axis of that sample by the factor of the range just read
\* (G2 0.06, G4 0.12, G6 0.18, G8 0.24, G16 0.73 milli-g per LSB); when the
\* range read fails or its code is no Range, no burst read is issued and an
\* error is returned.
C16_NormOrder ==
    result.op = "accel_norm" =>
        /\ trace[1].fn = "read_register"
        /\ trace[1].reg = 128 + 36
        /\ LET code == (trace[1].val \div 8) % 8
           IN  IF ~trace[1].ok \/ code > 4
               THEN /\ Len(trace) = 1
                    /\ ~result.ok
                    /\ trace[1].ok => result.err.kind = "InvalidRange"
               ELSE /\ Len(trace) = 2
                    /\ trace[2].fn = "read_bytes"
                    /\ trace[2].reg = 128 + 40
                    /\ result.ok = trace[2].ok
                    /\ result.ok =>
                          LET b == trace[2].val
                          IN  result.val =
                                << S16(b[2] * 256 + b[1]) * FactorOfCode(code),
                                   S16(b[4] * 256 + b[3]) * FactorOfCode(code),
                                   S16(b[6] * 256 + b[5]) * FactorOfCode(code) >>

C16_Witness ==
    /\ result.op = "accel_norm"
    /\ result.ok
    /\ trace[1].val = 32
    /\ trace[2].val = <<52, 18, 0, 0, 205, 171>>
    /\ result.val = <<340180, 0, -1573515>>

\* The error path of the same claim: the range code is no Range and the
\* operation ends after the one register read.
C16_WitnessInvalid ==
    /\ result.op = "accel_norm"
    /\ ~result.ok
    /\ trace[1].ok
    /\ trace[1].val = 40
    /\ Len(trace) = 1

\* C17: when initialization has succeeded on a device whose registers return
\* the last value written, CTRL_REG4 holds 0x6F and CTRL_REG5 holds 0x18; after
\* any sequence of set_datarate and set_range calls that follows, bit 3 (block
\* data update) and bits 0-2 (axis enables) of CTRL_REG4 are still set.
C17_InitState ==
    /\ (result.op = "new_with_interface" /\ result.ok) =>
          /\ regs[CTRL_REG4] = 111
          /\ regs[CTRL_REG5] = 24
    /\ pc \in {"ready", "returned"} => regs[CTRL_REG4] % 16 = 15

C17_Witness ==
    /\ pc = "returned"
    /\ result.op = "set_range"
    /\ result.ok
    /\ result.arg = "G2"
    /\ regs[CTRL_REG4] = 159
    /\ regs[CTRL_REG5] = 0

\* The first half of the same claim: the controller as init leaves it.
C17_WitnessInit ==
    /\ pc = "ready"
    /\ result.op = "new_with_interface"
    /\ result.ok
    /\ regs[CTRL_REG4] = 111

\* C18: in read_register, write_register and read_bytes a failed chip-select
\* assert ends the call with PinError at once: nothing is written to or
\* exchanged on the transport, and chip-select deassert is not called.
C18_AssertFails ==
    \A i \in BusCalls :
        /\ trace[i].fn \in {"read_register", "write_register", "read_bytes"}
        /\ trace[i].wire[1].op = "set_low"
        /\ ~trace[i].wire[1].ok =>
              /\ Len(trace[i].wire) = 1
              /\ ~trace[i].ok
              /\ trace[i].err = [kind |-> "PinError", src |-> "set_low"]
              /\ i = Len(trace)
              /\ result.err = IF trace[i].fn = "read_bytes"
                              THEN [kind |-> "Bus", src |-> "accel_raw"]
                              ELSE trace[i].err

C18_Witness ==
    /\ result.op = "set_range"
    /\ Len(trace) = 2
    /\ trace[2].fn = "write_register"
    /\ ~trace[2].wire[1].ok
    /\ Len(trace[2].wire) = 1

\* The same case in the other two functions.
C18_WitnessRead ==
    /\ result.op = "get_device_id"
    /\ trace[1].fn = "read_register"
    /\ ~trace[1].wire[1].ok

C18_WitnessBurst ==
    /\ result.op = "accel_raw"
    /\ trace[1].fn = "read_bytes"
    /\ ~trace[1].wire[1].ok

\* C19: in read_bytes, once chip-select is asserted, the command-byte write
\* and then the buffer exchange are both attempted before the deassert, also
\* when the write failed; with the deassert succeeding, the error returned is
\* the write failure when both phases failed and the exchange failure when
\* only the exchange failed.
C19_BothPhases ==
    \A i \in DOMAIN trace :
        (trace[i].fn = "read_bytes" /\ trace[i].wire[1].ok) =>
            LET w == trace[i].wire
            IN  /\ [k \in DOMAIN w |-> w[k].op]
                      = <<"set_low", "write", "transfer", "set_high">>
                /\ w[2].tx = <<trace[i].reg>>
                /\ Len(w[3].tx) = 6
                /\ (w[4].ok /\ ~w[2].ok /\ ~w[3].ok) =>
                      trace[i].err = [kind |-> "CommErr", src |-> "write"]
                /\ (w[4].ok /\ w[2].ok /\ ~w[3].ok) =>
                      trace[i].err = [kind |-> "CommErr", src |-> "transfer"]

C19_Witness ==
    /\ result.op = "accel_raw"
    /\ Len(trace[1].wire) = 4
    /\ ~trace[1].wire[2].ok
    /\ ~trace[1].wire[3].ok
    /\ trace[1].wire[4].ok
    /\ trace[1].err = [kind |-> "CommErr", src |-> "write"]

\* The second case of the same claim: only the exchange failed.
C19_WitnessExchange ==
    /\ result.op = "accel_raw"
    /\ Len(trace[1].wire) = 4
    /\ trace[1].wire[2].ok
    /\ ~trace[1].wire[3].ok
    /\ trace[1].wire[4].ok
    /\ trace[1].err = [kind |-> "CommErr", src |-> "transfer"]

\* What get_range and get_datarate return on a working bus for given registers.
RangeOf(rg) == get_range([regs |-> rg, trace |-> <<>>], NoFault).res

DataRateOf(rg) == get_datarate([regs |-> rg, trace |-> <<>>], NoFault).res

\* C20: every set_datarate call accesses CTRL_REG4 only and leaves what
\* get_range returns unchanged, and every set_range call accesses CTRL_REG5
\* only and leaves what get_datarate returns unchanged, at every step of any
\* interleaving of the two on a device that returns the last value written.
C20_Independent ==
    [][ /\ (pc = "ready" /\ result'.op = "set_datarate") =>
              /\ \A i \in DOMAIN trace' : trace'[i].reg % 128 = CTRL_REG4
              /\ regs'[CTRL_REG5] = regs[CTRL_REG5]
              /\ RangeOf(regs') = RangeOf(regs)
        /\ (pc = "ready" /\ result'.op = "set_range") =>
              /\ \A i \in DOMAIN trace' : trace'[i].reg % 128 = CTRL_REG5
              /\ regs'[CTRL_REG4] = regs[CTRL_REG4]
              /\ DataRateOf(regs') = DataRateOf(regs) ]_vars

C20_Witness ==
    /\ pc = "returned"
    /\ result.op = "set_datarate"
    /\ result.ok
    /\ result.arg = "Hz_1600"
    /\ regs[CTRL_REG4] = 159
    /\ RangeOf(regs) = Ok("G2")

\* The other direction: a set_range call on a rate that was changed before.
C20_WitnessRange ==
    /\ pc = "returned"
    /\ result.op = "set_range"
    /\ result.ok
    /\ result.arg = "G16"
    /\ regs[CTRL_REG5] = 32
    /\ DataRateOf(regs) = Ok("PowerDown")

====
